---- MODULE Spec2Model ----
(***************************************************************************)
(* The async CRUD benchmark driver of api_benchmark.py: one pass of        *)
(* benchmark_crud against one endpoint, with the coroutines post_item,     *)
(* get_item, put_item and delete_item run as asyncio tasks under gather.   *)
(*                                                                         *)
(* Text is a sequence of one-character strings, so that str.lower, the     *)
(* `in` substring test and f-string concatenation are computed.  A Python  *)
(* or JSON value is a record [t, n, s]; a dict is the sequence of its      *)
(* [k, v] items in insertion order.                                        *)
(***************************************************************************)
EXTENDS Integers, Sequences, FiniteSets, TLC

\* ------------------------------------------------------------------ bounds

\* largest NUM_REQUESTS a pass is run with
MaxRequests == 2
\* largest number of fields of a create response object
MaxFields == 2

\* ------------------------------------------------------------------- text

UpperAlpha == <<"A","B","C","D","E","F","G","H","I","J","K","L","M",
                "N","O","P","Q","R","S","T","U","V","W","X","Y","Z">>
LowerAlpha == <<"a","b","c","d","e","f","g","h","i","j","k","l","m",
                "n","o","p","q","r","s","t","u","v","w","x","y","z">>
Digits == <<"0","1","2","3","4","5","6","7","8","9">>

\* str.lower on one character
LowerChar(c) ==
    IF \E i \in 1..Len(UpperAlpha) : UpperAlpha[i] = c
    THEN LowerAlpha[CHOOSE i \in 1..Len(UpperAlpha) : UpperAlpha[i] = c]
    ELSE c

\* str.lower
Lower(str) == [i \in 1..Len(str) |-> LowerChar(str[i])]

\* needle in hay
Contains(needle, hay) ==
    \E i \in 1..(Len(hay) - Len(needle) + 1) :
        SubSeq(hay, i, i + Len(needle) - 1) = needle

\* str(n) for a natural number
RECURSIVE NatToStr(_)
NatToStr(n) ==
    IF n < 10 THEN <<Digits[n + 1]>>
    ELSE NatToStr(n \div 10) \o <<Digits[(n % 10) + 1]>>

\* str(n) for an int
IntToStr(n) == IF n < 0 THEN <<"-">> \o NatToStr(0 - n) ELSE NatToStr(n)

\* ----------------------------------------------------------------- values

None == [t |-> "none", n |-> 0, s |-> <<>>]
PyInt(n) == [t |-> "int", n |-> n, s |-> <<>>]
PyBool(b) == [t |-> "bool", n |-> IF b THEN 1 ELSE 0, s |-> <<>>]
PyStr(str) == [t |-> "str", n |-> 0, s |-> str]
\* a float, kept in hundredths
PyFloat(h) == [t |-> "float", n |-> h, s |-> <<>>]

\* bool(v): what `if v` tests
Truthy(v) ==
    CASE v.t = "none" -> FALSE
      [] v.t = "str" -> v.s # <<>>
      [] OTHER -> v.n # 0

\* isinstance(v, int) (bool is a subclass of int)
IsInt(v) == v.t \in {"int", "bool"}

\* the text an f-string gives for v
Format(v) ==
    CASE v.t = "none" -> <<"N","o","n","e">>
      [] v.t = "str" -> v.s
      [] v.t = "bool" -> IF v.n = 1 THEN <<"T","r","u","e">>
                                    ELSE <<"F","a","l","s","e">>
      [] v.t = "int" -> IntToStr(v.n)
      [] OTHER -> IntToStr(v.n \div 100) \o <<".">> \o NatToStr(v.n % 100)

\* ------------------------------------------------------------------ dicts

Item(k, v) == [k |-> k, v |-> v]

HasKey(d, k) == \E i \in 1..Len(d) : d[i].k = k

\* d.get(k)
DictGet(d, k) ==
    IF HasKey(d, k) THEN d[CHOOSE i \in 1..Len(d) : d[i].k = k].v ELSE None

\* d[k] = v: a present key keeps its position, a new key goes last
DictSet(d, k, v) ==
    IF HasKey(d, k)
    THEN [i \in 1..Len(d) |-> IF d[i].k = k THEN Item(k, v) ELSE d[i]]
    ELSE Append(d, Item(k, v))

\* d.update(e)
RECURSIVE DictUpdate(_, _)
DictUpdate(d, e) ==
    IF e = <<>> THEN d
    ELSE DictUpdate(DictSet(d, Head(e).k, Head(e).v), Tail(e))

\* ------------------------------------------------------ module constants

K_id == <<"i","d">>
K_name == <<"n","a","m","e">>
K_description == <<"d","e","s","c","r","i","p","t","i","o","n">>
K_price == <<"p","r","i","c","e">>
K_in_stock == <<"i","n","_","s","t","o","c","k">>
K_count == <<"c","o","u","n","t">>
K_other == <<"o","t","h","e","r">>
K_ID == <<"I","D">>

TestItem == <<"T","e","s","t"," ","I","t","e","m">>
Updated == <<"U","p","d","a","t","e","d">>
Description ==
    <<"A"," ","p","e","r","f","o","r","m","a","n","c","e"," ">>
    \o <<"b","e","n","c","h","m","a","r","k"," ","i","t","e","m">>

item_payload ==
    << Item(K_name, PyStr(TestItem)),
       Item(K_description, PyStr(Description)),
       Item(K_price, PyFloat(9999)),
       Item(K_in_stock, PyBool(TRUE)) >>

Http == <<"h","t","t","p",":","/","/">>
Localhost == <<"l","o","c","a","l","h","o","s","t">>
ItemsPath == <<"/","i","t","e","m","s","/">>
Slash == <<"/">>
Drf == <<"d","r","f">>
Port8001 == <<"8","0","0","1">>

\* "http://<host>:<port>/items/"
BaseUrl(host, port) == Http \o host \o <<":">> \o NatToStr(port) \o ItemsPath

\* an endpoint of the run: its name and URL, and the backend behind the URL:
\* whether its item route ends in a slash, and which objects it may answer a
\* create with ("items": the stored item; "any": any object)
Endpoint(nm, u, slash, answers) ==
    [name |-> nm, url |-> u, trailing_slash |-> slash, answers |-> answers]

\* -------------------------------------------------------------- responses

\* what r.json() gives: an object, or nothing (the text is no JSON)
JsonObject(d) == [kind |-> "object", obj |-> d]
NotJson == [kind |-> "invalid", obj |-> <<>>]

\* what `await client.<method>(...)` gives: a response, or an exception
HttpResponse(status, data) == [kind |-> "http", status |-> status, data |-> data]
TransportError == [kind |-> "exc", status |-> 0, data |-> NotJson]
NoResponse == [kind |-> "none", status |-> 0, data |-> NotJson]

\* ------------------------------------------------------------ post_item

\* the test of the scan, on one item of response_data
Matches(it) == Lower(it.k) = K_id \/ (IsInt(it.v) /\ it.v.n > 0)

\* a scan that does not break: the last matching item wins
ScanItemsNoBreak(d) ==
    IF \E i \in 1..Len(d) : Matches(d[i])
    THEN d[CHOOSE i \in 1..Len(d) :
             Matches(d[i]) /\ \A j \in (i + 1)..Len(d) : ~Matches(d[j])].v
    ELSE None

\* for key, value in response_data.items(): the first matching item, then break
ScanItems(d) ==
    IF \E i \in 1..Len(d) : Matches(d[i])
    THEN d[CHOOSE i \in 1..Len(d) :
             Matches(d[i]) /\ \A j \in 1..(i - 1) : ~Matches(d[j])].v
    ELSE None

\* item_id = response_data.get("id"), and the scan when that is None
ExtractId(d) == IF DictGet(d, K_id) # None THEN DictGet(d, K_id) ELSE ScanItems(d)

\* the status test of post_item
PostOk(r) == r.kind = "http" /\ r.status \in {200, 201}

\* post_item raises inside its try: the transport, or r.json()
PostRaises(r) == r.kind = "exc" \/ (PostOk(r) /\ r.data.kind = "invalid")

\* what post_item returns on r
post_item(r) ==
    IF PostOk(r) /\ ~PostRaises(r) THEN ExtractId(r.data.obj) ELSE None

\* post_item calls logging.error on r
PostLogs(r) == ~PostOk(r) \/ PostRaises(r)

\* ------------------------------------------- get_item, put_item, delete_item

\* 'drf' in url or '8001' in url
NeedsSlash(u) == Contains(Drf, u) \/ Contains(Port8001, u)

get_url(u, item_id) ==
    IF NeedsSlash(u) THEN u \o Format(item_id) \o Slash ELSE u \o Format(item_id)

put_url(u, item_id) ==
    IF NeedsSlash(u) THEN u \o Format(item_id) \o Slash ELSE u \o Format(item_id)

delete_url(u, item_id) ==
    IF NeedsSlash(u) THEN u \o Format(item_id) \o Slash ELSE u \o Format(item_id)

\* {"name": "Updated", **item_payload}
put_payload == DictUpdate(<<Item(K_name, PyStr(Updated))>>, item_payload)

\* a get_item that takes every 2xx status for a success
GetOkAny2xx(r) == r.kind = "http" /\ r.status \in 200..299

GetOk(r) == r.kind = "http" /\ r.status = 200
PutOk(r) == r.kind = "http" /\ r.status = 200
DeleteOk(r) == r.kind = "http" /\ r.status \in {200, 204}

get_item(r) == PyBool(GetOk(r))
put_item(r) == PyBool(PutOk(r))
delete_item(r) == PyBool(DeleteOk(r))

\* ------------------------------------------------------------ environment

\* the body a backend answers a create with: {"id": item.id, **data}
CreatedBody(i) == DictUpdate(<<Item(K_id, PyInt(i))>>, item_payload)

\* create bodies of a pass that carry no usable id: an id of 0, no id at all
PassBodies == { <<Item(K_id, PyInt(0))>>, <<Item(K_name, PyStr(TestItem))>> }

ObjectKeys == { K_id, K_ID, K_count, K_other }
ObjectValues == { PyInt(7), PyInt(3), PyInt(0), PyBool(TRUE), PyStr(<<"x">>) }

\* the objects of at most n fields, in every order of their fields
RECURSIVE Objects(_)
Objects(n) ==
    IF n = 0 THEN { <<>> }
    ELSE LET shorter == Objects(n - 1)
         IN  shorter \cup
             { Append(d, Item(k, v)) :
                 d \in { x \in shorter : Len(x) = n - 1 },
                 k \in ObjectKeys, v \in ObjectValues }

\* a JSON object has no two fields of one name
DistinctKeys(d) == \A i, j \in 1..Len(d) : d[i].k = d[j].k => i = j

AllObjects == { d \in Objects(MaxFields) : DistinctKeys(d) }

\* the objects a backend may answer a create with, besides the stored item
CreateBodies(answers) == IF answers = "any" THEN AllObjects ELSE PassBodies

\* the item routes: FastAPI and Flask end in the id, DRF in a slash
ENDPOINTS ==
    { Endpoint("fastapi", BaseUrl(Localhost, 8000), FALSE, "items"),
      Endpoint("flask", BaseUrl(Localhost, 5000), FALSE, "items"),
      Endpoint("drf", BaseUrl(Localhost, 8001), TRUE, "items") }

\* what the transport may give each coroutine; the i-th create of a pass may
\* be answered with the item the backend stored for it, whose id is fresh
PostResponses(bodies, i) ==
    { TransportError, HttpResponse(500, NotJson), HttpResponse(204, NotJson) }
    \cup { HttpResponse(st, NotJson) : st \in {200, 201} }
    \cup { HttpResponse(st, JsonObject(b)) :
             st \in {200, 201}, b \in bodies \cup {CreatedBody(i)} }
GetResponses ==
    { TransportError } \cup { HttpResponse(st, NotJson) : st \in {200, 201, 404} }
PutResponses ==
    { TransportError } \cup { HttpResponse(st, NotJson) : st \in {200, 204, 404} }
DeleteResponses ==
    { TransportError }
    \cup { HttpResponse(st, NotJson) : st \in {200, 201, 204, 404} }

\* ------------------------------------------------------------------ state

VARIABLES
    name,            \* benchmark_crud's name
    url,             \* benchmark_crud's url
    backend,         \* the backend behind url: [trailing_slash, answers]
    NUM_REQUESTS,    \* the request count of the pass
    pc,              \* where benchmark_crud is
    tasks,           \* the coroutines of each gather: post, get, put, delete
    item_ids,
    post_results,
    get_results,
    put_results,
    delete_results,
    total_requests,
    success,
    failures,
    errors_logged,   \* the number of logging.error lines written
    reports,         \* the blocks print_metrics has written, in order
    down,            \* the names of the endpoints that refuse every connection
    main,            \* where main is: [pc, i], i the endpoint of its loop
    server           \* a backend: [framework, items, last_id, req, reply]

vars == << name, url, backend, NUM_REQUESTS, pc, tasks, item_ids, post_results,
           get_results, put_results, delete_results, total_requests, success,
           failures, errors_logged, reports, down, main, server >>

config == << name, url, backend, NUM_REQUESTS, down, main, server >>
results == << post_results, get_results, put_results, delete_results >>
metrics == << total_requests, success, failures, reports >>

Phases == {"post", "get", "put", "delete"}

\* a coroutine not yet run: get_item(client, url, id) and the like
NewTask(item_id) ==
    [st |-> "pending", item_id |-> item_id, url |-> <<>>, json |-> <<>>,
     r |-> NoResponse, result |-> None]

\* the ids whose result in rs, at the same position, is a success
RECURSIVE Surviving(_, _)
Surviving(ids, rs) ==
    IF ids = <<>> \/ rs = <<>> THEN <<>>
    ELSE (IF Truthy(Head(rs)) THEN <<Head(ids)>> ELSE <<>>)
         \o Surviving(Tail(ids), Tail(rs))

\* a batch that leaves out the ids whose request of the phase before failed
TasksForSurvivors(ids) ==
    LET kept == CASE pc = "sleep_2" -> Surviving(ids, get_results)
                  [] pc = "sleep_3" -> Surviving(ids, put_results)
                  [] OTHER -> ids
    IN  [i \in 1..Len(kept) |-> NewTask(kept[i])]

\* [get_item(client, url, id) for id in item_ids], and so for put and delete:
\* one coroutine per collected id, in the order of item_ids
TasksFor(ids) == [i \in 1..Len(ids) |-> NewTask(ids[i])]

\* the coroutine has reached its await: the request is on its way
Sent(t, target, body) == [t EXCEPT !.st = "sent", !.url = target, !.json = body]

\* the coroutine has returned
Returned(t, r, result) == [t EXCEPT !.st = "done", !.r = r, !.result = result]

\* a gather that returns once one of its tasks has
SomeDone(ts) == ts = <<>> \/ \E i \in 1..Len(ts) : ts[i].st = "done"

\* await asyncio.gather(*ts, return_exceptions=True) returns: every task has
AllDone(ts) == \A i \in 1..Len(ts) : ts[i].st = "done"

\* a gather that gives up its batch when one task has failed
GatheredFailFast(ts) ==
    IF \E i \in 1..Len(ts) : ~Truthy(ts[i].result)
    THEN [i \in 1..Len(ts) |-> None]
    ELSE [i \in 1..Len(ts) |-> ts[i].result]

\* what gather returns, by position
Gathered(ts) == [i \in 1..Len(ts) |-> ts[i].result]

\* the frames of the finished coroutines are gone
Released(ts) ==
    [i \in 1..Len(ts) |-> IF ts[i].st = "done" THEN [ts[i] EXCEPT !.r = NoResponse]
                                                ELSE ts[i]]

\* sum(rs) of a list of bools
RECURSIVE Sum(_)
Sum(rs) == IF rs = <<>> THEN 0 ELSE Head(rs).n + Sum(Tail(rs))

\* a filter that keeps every result
KeepAll(rs) == rs

\* [id for id in rs if id and not isinstance(id, Exception)]
KeepTruthy(rs) == SelectSeq(rs, Truthy)

\* the requests that were sent: one per create, three per collected id
SentRequests(n) == n + 3 * Len(item_ids)

\* total_requests = NUM_REQUESTS * 4
TotalRequests(n) == n * 4

\* success with the creates summed like the other three terms
SuccessCountSummed(posts, gets, puts, deletes) ==
    Sum(KeepTruthy(posts)) + Sum(KeepTruthy(gets)) + Sum(KeepTruthy(puts))
    + Sum(KeepTruthy(deletes))

\* the four terms of success
SuccessCount(posts, gets, puts, deletes) ==
    Len(KeepTruthy(posts)) + Sum(KeepTruthy(gets)) + Sum(KeepTruthy(puts))
    + Sum(KeepTruthy(deletes))

\* failures counted from the results at hand
FailuresOfResults(total, succ) ==
    (Len(post_results) + Len(get_results) + Len(put_results)
     + Len(tasks.delete)) - succ

\* failures = total_requests - success
Failures(total, succ) == total - succ

\* print_metrics(name, duration, success, failures, total_requests)
Report(nm, succ, fails, total) ==
    [name |-> nm, success |-> succ, failures |-> fails, total_requests |-> total]

\* what the transport gives a request to this pass's endpoint: a backend that
\* is down refuses the connection
Answers(responses) == IF name \in down THEN { TransportError } ELSE responses

InitPass(e, n) ==
    /\ name = e.name
    /\ url = e.url
    /\ backend = [trailing_slash |-> e.trailing_slash, answers |-> e.answers]
    /\ NUM_REQUESTS = n
    /\ pc = "start"
    /\ tasks = [ph \in Phases |-> <<>>]
    /\ item_ids = <<>>
    /\ post_results = <<>>
    /\ get_results = <<>>
    /\ put_results = <<>>
    /\ delete_results = <<>>
    /\ total_requests = 0
    /\ success = 0
    /\ failures = 0
    /\ errors_logged = 0

\* no request to serve
NoRequest == [op |-> "none", item_id |-> 0, data |-> <<>>]
NoReply == [status |-> 0, data |-> <<>>]

\* the backends are not part of the run
NoServer ==
    server = [framework |-> "none", items |-> {}, last_id |-> 0,
              req |-> NoRequest, reply |-> NoReply]

\* benchmark_crud called by itself, every backend reachable
Alone ==
    /\ reports = <<>>
    /\ down = {}
    /\ main = [pc |-> "pass", i |-> 0]
    /\ NoServer

Init == \E e \in ENDPOINTS, n \in 0..MaxRequests : InitPass(e, n) /\ Alone

\* ---------------------------------------------------------- benchmark_crud

\* post_tasks = [post_item(client, url) for _ in range(NUM_REQUESTS)]; gather
StartPost ==
    /\ pc = "start"
    /\ tasks' = [tasks EXCEPT !.post = [i \in 1..NUM_REQUESTS |-> NewTask(None)]]
    /\ pc' = "post_gather"
    /\ UNCHANGED << config, item_ids, results, metrics, errors_logged >>

\* the gather of the creates returns; item_ids.extend(...); asyncio.sleep(1)
JoinPost ==
    /\ pc = "post_gather"
    /\ AllDone(tasks.post)
    /\ post_results' = Gathered(tasks.post)
    /\ item_ids' = item_ids \o KeepTruthy(Gathered(tasks.post))
    /\ tasks' = [tasks EXCEPT !.post = Released(tasks.post)]
    /\ pc' = "sleep_1"
    /\ UNCHANGED << config, get_results, put_results, delete_results, metrics,
                    errors_logged >>

\* get_tasks = [get_item(client, url, id) for id in item_ids]; gather
StartGet ==
    /\ pc = "sleep_1"
    /\ tasks' = [tasks EXCEPT
                   !.get = TasksFor(item_ids)]
    /\ pc' = "get_gather"
    /\ UNCHANGED << config, item_ids, results, metrics, errors_logged >>

\* the gather of the reads returns; asyncio.sleep(1)
JoinGet ==
    /\ pc = "get_gather"
    /\ AllDone(tasks.get)
    /\ get_results' = Gathered(tasks.get)
    /\ tasks' = [tasks EXCEPT !.get = Released(tasks.get)]
    /\ pc' = "sleep_2"
    /\ UNCHANGED << config, item_ids, post_results, put_results, delete_results,
                    metrics, errors_logged >>

\* put_tasks = [put_item(client, url, id) for id in item_ids]; gather
StartPut ==
    /\ pc = "sleep_2"
    /\ tasks' = [tasks EXCEPT
                   !.put = TasksFor(item_ids)]
    /\ pc' = "put_gather"
    /\ UNCHANGED << config, item_ids, results, metrics, errors_logged >>

\* the gather of the updates returns; asyncio.sleep(1)
JoinPut ==
    /\ pc = "put_gather"
    /\ AllDone(tasks.put)
    /\ put_results' = Gathered(tasks.put)
    /\ tasks' = [tasks EXCEPT !.put = Released(tasks.put)]
    /\ pc' = "sleep_3"
    /\ UNCHANGED << config, item_ids, post_results, get_results, delete_results,
                    metrics, errors_logged >>

\* delete_tasks = [delete_item(client, url, id) for id in item_ids]; gather
StartDelete ==
    /\ pc = "sleep_3"
    /\ tasks' = [tasks EXCEPT
                   !.delete = TasksFor(item_ids)]
    /\ pc' = "delete_gather"
    /\ UNCHANGED << config, item_ids, results, metrics, errors_logged >>

\* the gather of the deletes returns; the metrics are computed and printed
JoinDelete ==
    /\ pc = "delete_gather"
    /\ AllDone(tasks.delete)
    /\ delete_results' = Gathered(tasks.delete)
    /\ tasks' = [tasks EXCEPT !.delete = Released(tasks.delete)]
    /\ total_requests' = TotalRequests(NUM_REQUESTS)
    /\ success' = SuccessCount(post_results, get_results, put_results,
                               Gathered(tasks.delete))
    /\ failures' = Failures(total_requests', success')
    /\ reports' = Append(reports, Report(name, success', failures', total_requests'))
    /\ pc' = "done"
    /\ UNCHANGED << config, item_ids, post_results, get_results, put_results,
                    errors_logged >>

\* ------------------------------------------------------------ the coroutines

\* post_item runs to `await client.post(url, json=item_payload)`
PostSend(i) ==
    /\ tasks.post[i].st = "pending"
    /\ tasks' = [tasks EXCEPT !.post[i] = Sent(@, url, item_payload)]
    /\ UNCHANGED << config, pc, item_ids, results, metrics, errors_logged >>

\* post_item resumes with r, or with the exception, and returns
PostReturn(i) ==
    /\ tasks.post[i].st = "sent"
    /\ \E r \in Answers(PostResponses(CreateBodies(backend.answers), i)) :
         /\ tasks' = [tasks EXCEPT !.post[i] = Returned(@, r, post_item(r))]
         /\ errors_logged' = errors_logged + (IF PostLogs(r) THEN 1 ELSE 0)
    /\ UNCHANGED << config, pc, item_ids, results, metrics >>

\* get_item runs to `await client.get(get_url)`
GetSend(i) ==
    /\ tasks.get[i].st = "pending"
    /\ tasks' = [tasks EXCEPT
                   !.get[i] = Sent(@, get_url(url, @.item_id), <<>>)]
    /\ UNCHANGED << config, pc, item_ids, results, metrics, errors_logged >>

\* get_item resumes and returns
GetReturn(i) ==
    /\ tasks.get[i].st = "sent"
    /\ \E r \in Answers(GetResponses) :
         /\ tasks' = [tasks EXCEPT !.get[i] = Returned(@, r, get_item(r))]
         /\ errors_logged' = errors_logged + (IF GetOk(r) THEN 0 ELSE 1)
    /\ UNCHANGED << config, pc, item_ids, results, metrics >>

\* put_item runs to `await client.put(put_url, json=put_payload)`
PutSend(i) ==
    /\ tasks.put[i].st = "pending"
    /\ tasks' = [tasks EXCEPT
                   !.put[i] = Sent(@, put_url(url, @.item_id), put_payload)]
    /\ UNCHANGED << config, pc, item_ids, results, metrics, errors_logged >>

\* put_item resumes and returns
PutReturn(i) ==
    /\ tasks.put[i].st = "sent"
    /\ \E r \in Answers(PutResponses) :
         /\ tasks' = [tasks EXCEPT !.put[i] = Returned(@, r, put_item(r))]
         /\ errors_logged' = errors_logged + (IF PutOk(r) THEN 0 ELSE 1)
    /\ UNCHANGED << config, pc, item_ids, results, metrics >>

\* delete_item runs to `await client.delete(delete_url)`
DeleteSend(i) ==
    /\ tasks.delete[i].st = "pending"
    /\ tasks' = [tasks EXCEPT
                   !.delete[i] = Sent(@, delete_url(url, @.item_id), <<>>)]
    /\ UNCHANGED << config, pc, item_ids, results, metrics, errors_logged >>

\* delete_item resumes and returns
DeleteReturn(i) ==
    /\ tasks.delete[i].st = "sent"
    /\ \E r \in Answers(DeleteResponses) :
         /\ tasks' = [tasks EXCEPT !.delete[i] = Returned(@, r, delete_item(r))]
         /\ errors_logged' = errors_logged + (IF DeleteOk(r) THEN 0 ELSE 1)
    /\ UNCHANGED << config, pc, item_ids, results, metrics >>

Next ==
    \/ StartPost
    \/ JoinPost
    \/ StartGet
    \/ JoinGet
    \/ StartPut
    \/ JoinPut
    \/ StartDelete
    \/ JoinDelete
    \/ \E i \in 1..Len(tasks.post) : PostSend(i)
    \/ \E i \in 1..Len(tasks.post) : PostReturn(i)
    \/ \E i \in 1..Len(tasks.get) : GetSend(i)
    \/ \E i \in 1..Len(tasks.get) : GetReturn(i)
    \/ \E i \in 1..Len(tasks.put) : PutSend(i)
    \/ \E i \in 1..Len(tasks.put) : PutReturn(i)
    \/ \E i \in 1..Len(tasks.delete) : DeleteSend(i)
    \/ \E i \in 1..Len(tasks.delete) : DeleteReturn(i)

Spec == Init /\ [][Next]_vars

\* ------------------------------------------- one create, any response object

InitExtract ==
    InitPass(Endpoint("fastapi", BaseUrl(Localhost, 8000), FALSE, "any"), 1) /\ Alone

SpecExtract == InitExtract /\ [][Next]_vars

\* --------------------------------------------- one create, any endpoint URL

DrfHost == <<"d","r","f","-","a","p","i">>

\* the configured endpoints; Flask served on port 8001 and on a host named
\* after DRF; the DRF backend served on port 9000
PathEndpoints ==
    ENDPOINTS \cup
    { Endpoint("flask", BaseUrl(Localhost, 8001), FALSE, "items"),
      Endpoint("flask", BaseUrl(DrfHost, 5000), FALSE, "items"),
      Endpoint("drf", BaseUrl(Localhost, 9000), TRUE, "items") }

InitPaths == \E e \in PathEndpoints : InitPass(e, 1) /\ Alone

SpecPaths == InitPaths /\ [][Next]_vars

\* ---------------------------------------------------------------------- main

\* the request count the runs of main are checked with
MainRequests == 1

\* ENDPOINTS.items(), in the order of the dict
EndpointOrder ==
    << Endpoint("fastapi", BaseUrl(Localhost, 8000), FALSE, "items"),
       Endpoint("flask", BaseUrl(Localhost, 5000), FALSE, "items"),
       Endpoint("drf", BaseUrl(Localhost, 8001), TRUE, "items") >>

\* benchmark_crud(name, url) is entered: its arguments and fresh locals
EnterPass(e) ==
    /\ name' = e.name
    /\ url' = e.url
    /\ backend' = [trailing_slash |-> e.trailing_slash, answers |-> e.answers]
    /\ pc' = "start"
    /\ tasks' = [ph \in Phases |-> <<>>]
    /\ item_ids' = <<>>
    /\ post_results' = <<>>
    /\ get_results' = <<>>
    /\ put_results' = <<>>
    /\ delete_results' = <<>>
    /\ total_requests' = 0
    /\ success' = 0
    /\ failures' = 0

\* a main that schedules benchmark_crud and goes on without awaiting it
PassScheduled == pc # "start"

\* `await benchmark_crud(name, url)` returns
PassReturned == pc = "done"

\* await benchmark_crud(name, url) returns; await asyncio.sleep(2)
MainSleep ==
    /\ main.pc = "pass"
    /\ main.i >= 1
    /\ PassReturned
    /\ main' = [main EXCEPT !.pc = "sleep"]
    /\ UNCHANGED << name, url, backend, NUM_REQUESTS, down, server, pc, tasks,
                    item_ids, results, metrics, errors_logged >>

\* the next name, url of the loop: await benchmark_crud(name, url)
MainNextEndpoint ==
    /\ main.pc = "sleep"
    /\ main.i < Len(EndpointOrder)
    /\ main' = [pc |-> "pass", i |-> main.i + 1]
    /\ EnterPass(EndpointOrder[main.i + 1])
    /\ UNCHANGED << NUM_REQUESTS, down, server, errors_logged, reports >>

\* the loop is over: "Benchmark completed!"
MainFinish ==
    /\ main.pc = "sleep"
    /\ main.i = Len(EndpointOrder)
    /\ main' = [main EXCEPT !.pc = "done"]
    /\ UNCHANGED << name, url, backend, NUM_REQUESTS, down, server, pc, tasks,
                    item_ids, results, metrics, errors_logged >>

\* main has entered its loop, with some of the backends down
InitMain ==
    /\ InitPass(EndpointOrder[1], MainRequests)
    /\ reports = <<>>
    /\ down \in SUBSET { EndpointOrder[j].name : j \in 1..Len(EndpointOrder) }
    /\ main = [pc |-> "pass", i |-> 1]
    /\ NoServer

NextMain == Next \/ MainSleep \/ MainNextEndpoint \/ MainFinish

SpecMain == InitMain /\ [][NextMain]_vars


\* --------------------------------------------------------------- backends

\* the largest id a backend gives out
MaxItems == 2

Frameworks == {"fastapi", "flask", "drf"}

\* the payload with the name the update is meant to carry
UpdatedPayload == DictSet(item_payload, K_name, PyStr(Updated))

\* the JSON bodies of the requests
RequestBodies == { item_payload, UpdatedPayload }

\* POST /items/, and GET, PUT, DELETE /items/<id>
Requests ==
    { [op |-> "post", item_id |-> 0, data |-> b] : b \in RequestBodies }
    \cup { [op |-> "put", item_id |-> i, data |-> b] :
             i \in 1..MaxItems, b \in RequestBodies }
    \cup { [op |-> o, item_id |-> i, data |-> <<>>] :
             o \in {"get", "delete"}, i \in 1..MaxItems }

\* a row of the items table
Row(i, data) == [id |-> i, data |-> data]

StoredIds(items) == { row.id : row \in items }

\* db.query(models.Item).get(item_id), Item.query.get(item_id)
Lookup(items, i) == CHOOSE row \in items : row.id = i

\* the item as JSON: its id and its fields
RowBody(row) == DictUpdate(<<Item(K_id, PyInt(row.id))>>, row.data)

\* for key, value in data.items(): setattr(item, key, value)
SetFields(items, i, data) ==
    { IF row.id = i THEN Row(i, DictUpdate(row.data, data)) ELSE row : row \in items }

Reply(status, data) == [status |-> status, data |-> data]

OkBody == <<Item(<<"o","k">>, PyBool(TRUE))>>
DetailNotFound ==
    <<Item(<<"d","e","t","a","i","l">>,
           PyStr(<<"I","t","e","m"," ","n","o","t"," ","f","o","u","n","d">>))>>
ErrorBody ==
    <<Item(<<"e","r","r","o","r">>,
           PyStr(<<"N","o"," ","I","t","e","m"," ","m","a","t","c","h","e","s">>))>>

\* the handler has answered: the request is served
Served(reply, items, last) ==
    server' = [server EXCEPT !.req = NoRequest, !.reply = reply, !.items = items,
                             !.last_id = last]

driver == << name, url, backend, NUM_REQUESTS, down, main, pc, tasks, item_ids,
             results, metrics, errors_logged >>

\* a client sends a request to the backend
ClientRequest ==
    /\ server.framework \in Frameworks
    /\ server.req = NoRequest
    /\ \E q \in Requests : server' = [server EXCEPT !.req = q]
    /\ UNCHANGED driver

\* create_item of any of the three: the row is added with the next id
Create(framework, status) ==
    /\ server.framework = framework
    /\ server.req.op = "post"
    /\ server.last_id < MaxItems
    /\ LET row == Row(server.last_id + 1, server.req.data)
       IN  Served(Reply(status, RowBody(row)), server.items \cup {row}, row.id)
    /\ UNCHANGED driver

\* get_item: 404 when the row is missing
Read(framework) ==
    /\ server.framework = framework
    /\ server.req.op = "get"
    /\ IF server.req.item_id \in StoredIds(server.items)
       THEN Served(Reply(200, RowBody(Lookup(server.items, server.req.item_id))),
                   server.items, server.last_id)
       ELSE Served(Reply(404, DetailNotFound), server.items, server.last_id)
    /\ UNCHANGED driver

\* delete_item: 404 when the row is missing
Delete(framework, status, body) ==
    /\ server.framework = framework
    /\ server.req.op = "delete"
    /\ IF server.req.item_id \in StoredIds(server.items)
       THEN Served(Reply(status, body),
                   { row \in server.items : row.id # server.req.item_id },
                   server.last_id)
       ELSE Served(Reply(404, DetailNotFound), server.items, server.last_id)
    /\ UNCHANGED driver

\* the row is there: its fields are set and the item is answered with 200
UpdateStored ==
    LET items == SetFields(server.items, server.req.item_id, server.req.data)
    IN  Served(Reply(200, RowBody(Lookup(items, server.req.item_id))), items,
               server.last_id)

\* update_item of FastAPI and of Flask: 404 when the row is missing
UpdateOr404(framework) ==
    /\ server.framework = framework
    /\ server.req.op = "put"
    /\ IF server.req.item_id \in StoredIds(server.items)
       THEN UpdateStored
       ELSE Served(Reply(404, DetailNotFound), server.items, server.last_id)
    /\ UNCHANGED driver

FastapiCreate == Create("fastapi", 200)
FastapiGet == Read("fastapi")
FastapiUpdate == UpdateOr404("fastapi")
FastapiDelete == Delete("fastapi", 200, OkBody)

FlaskCreate == Create("flask", 200)
FlaskGet == Read("flask")
FlaskUpdate == UpdateOr404("flask")
FlaskDelete == Delete("flask", 200, OkBody)

DrfCreate == Create("drf", 201)
DrfRetrieve == Read("drf")
DrfDestroy == Delete("drf", 204, <<>>)

\* ItemViewSet.update: super().update raises Http404 for a missing row, and
\* every Exception is answered with 500
DrfUpdate ==
    /\ server.framework = "drf"
    /\ server.req.op = "put"
    /\ IF server.req.item_id \in StoredIds(server.items)
       THEN UpdateStored
       ELSE Served(Reply(500, ErrorBody), server.items, server.last_id)
    /\ UNCHANGED driver

\* one backend with an empty table; the driver is not running
InitBackend ==
    /\ reports = <<>>
    /\ down = {}
    /\ main = [pc |-> "pass", i |-> 0]
    /\ \E j \in 1..Len(EndpointOrder) :
         /\ InitPass(EndpointOrder[j], 0)
         /\ server = [framework |-> EndpointOrder[j].name, items |-> {},
                      last_id |-> 0, req |-> NoRequest, reply |-> NoReply]

NextBackend ==
    \/ ClientRequest
    \/ FastapiCreate \/ FastapiGet \/ FastapiUpdate \/ FastapiDelete
    \/ FlaskCreate \/ FlaskGet \/ FlaskUpdate \/ FlaskDelete
    \/ DrfCreate \/ DrfRetrieve \/ DrfUpdate \/ DrfDestroy

SpecBackend == InitBackend /\ [][NextBackend]_vars

\* ================================================================== claims

\* a request of the batch has been sent
Issued(ts) == \E i \in 1..Len(ts) : ts[i].st # "pending"

\* the batch has n tasks and each has returned
Resolved(ts, n) == Len(ts) = n /\ \A i \in 1..Len(ts) : ts[i].st = "done"

\* the results that count as a success
Successes(rs) == { i \in 1..Len(rs) : Truthy(rs[i]) }

\* C1: within a pass no GET is issued before every POST task has resolved, no
\* PUT before every GET has resolved and no DELETE before every PUT has
\* resolved: the phases run in the order create, read, update, delete with a
\* full join barrier between them.
C1_PhaseBarrier ==
    /\ Issued(tasks.get) => Resolved(tasks.post, NUM_REQUESTS)
    /\ Issued(tasks.put) =>
         Resolved(tasks.post, NUM_REQUESTS) /\ Resolved(tasks.get, Len(item_ids))
    /\ Issued(tasks.delete) =>
         /\ Resolved(tasks.post, NUM_REQUESTS)
         /\ Resolved(tasks.get, Len(item_ids))
         /\ Resolved(tasks.put, Len(item_ids))
    /\ pc = "done" => Resolved(tasks.delete, Len(item_ids))

\* two ids went through the read and update phases, an update failed, and a
\* delete is on its way
C1_Witness ==
    /\ NUM_REQUESTS = 2
    /\ Len(item_ids) = 2
    /\ Len(tasks.put) = 2
    /\ Len(tasks.delete) = 2
    /\ tasks.put[1].result = PyBool(FALSE)
    /\ tasks.delete[2].st = "sent"
    /\ tasks.delete[1].st = "pending"

\* C2: batch isolation: whatever requests of a phase fail, every request of
\* the phase completes and is counted by its own outcome, and the later phases
\* run for every id a create returned: the results a gather hands over are the
\* tasks' own results, position by position; the read, update and delete
\* phases each have one task per successful create, for that create's id; and
\* the successes reported are the tasks that succeeded.
C2_BatchIsolation ==
    /\ pc \notin {"start", "post_gather"} =>
         /\ Len(post_results) = NUM_REQUESTS
         /\ \A i \in 1..NUM_REQUESTS :
              /\ tasks.post[i].st = "done"
              /\ post_results[i] = tasks.post[i].result
         /\ Len(item_ids) = Cardinality(Successes(post_results))
         /\ \A i \in Successes(post_results) :
              \E j \in 1..Len(item_ids) : item_ids[j] = post_results[i]
    /\ \A ph \in {"get", "put", "delete"} :
         tasks[ph] # <<>> =>
           /\ Len(tasks[ph]) = Len(item_ids)
           /\ \A j \in 1..Len(item_ids) : tasks[ph][j].item_id = item_ids[j]
    /\ pc \notin {"start", "post_gather", "sleep_1", "get_gather"} =>
         get_results = [j \in 1..Len(item_ids) |-> tasks.get[j].result]
    /\ pc \notin {"start", "post_gather", "sleep_1", "get_gather", "sleep_2",
                  "put_gather"} =>
         put_results = [j \in 1..Len(item_ids) |-> tasks.put[j].result]
    /\ pc = "done" =>
         /\ delete_results = [j \in 1..Len(item_ids) |-> tasks.delete[j].result]
         /\ success =
              Cardinality(Successes(post_results))
              + Cardinality(Successes(get_results))
              + Cardinality(Successes(put_results))
              + Cardinality(Successes(delete_results))

\* one of two creates failed and was logged; the other's id was read, its
\* update failed, and it was deleted
C2_Witness ==
    /\ pc = "done"
    /\ NUM_REQUESTS = 2
    /\ post_results[1] = None
    /\ post_results[2] = PyInt(2)
    /\ item_ids = <<PyInt(2)>>
    /\ get_results = <<PyBool(TRUE)>>
    /\ put_results = <<PyBool(FALSE)>>
    /\ delete_results = <<PyBool(TRUE)>>
    /\ errors_logged = 2
    /\ success = 3

\* C3: the total_requests a pass reports is 4 * NUM_REQUESTS, for every
\* request count and whatever the requests' outcomes, also when fewer than
\* NUM_REQUESTS ids were created and fewer than 4 * NUM_REQUESTS requests sent.
C3_TotalRequests == pc = "done" => total_requests = 4 * NUM_REQUESTS

\* a pass of two creates of which one gave an id: five requests were sent
C3_Witness ==
    /\ pc = "done"
    /\ NUM_REQUESTS = 2
    /\ Len(item_ids) = 1
    /\ Len(tasks.post) + Len(tasks.get) + Len(tasks.put) + Len(tasks.delete) = 5
    /\ total_requests = 8

\* C4: the success and failure counts a pass reports add up to the
\* total_requests it reports.
C4_CountsAddUp == pc = "done" => success + failures = total_requests

\* a pass with fewer ids than creates and a failed read
C4_Witness ==
    /\ pc = "done"
    /\ NUM_REQUESTS = 2
    /\ Len(item_ids) = 1
    /\ get_results = <<PyBool(FALSE)>>
    /\ success = 3
    /\ failures = 5

\* C5: when every create of a pass fails, the read, update and delete phases
\* issue no request, and the pass reports total_requests = 4 * NUM_REQUESTS,
\* success = 0 and failures = 4 * NUM_REQUESTS.
C5_AllCreatesFail ==
    (/\ pc \notin {"start", "post_gather"}
     /\ \A i \in 1..Len(post_results) : ~Truthy(post_results[i])) =>
        /\ item_ids = <<>>
        /\ tasks.get = <<>> /\ tasks.put = <<>> /\ tasks.delete = <<>>
        /\ pc = "done" =>
             /\ get_results = <<>> /\ put_results = <<>> /\ delete_results = <<>>
             /\ total_requests = 4 * NUM_REQUESTS
             /\ success = 0
             /\ failures = 4 * NUM_REQUESTS

\* a finished pass of two creates that both failed
C5_Witness ==
    /\ pc = "done"
    /\ NUM_REQUESTS = 2
    /\ post_results = <<None, None>>
    /\ errors_logged = 2
    /\ failures = 8

\* C6 as first stated: if every request of a pass gets a success status (no
\* error is logged), then success = total_requests and failures = 0, whatever
\* object the creates are answered with.
C6_Original ==
    (pc = "done" /\ errors_logged = 0) =>
        (success = total_requests /\ failures = 0)

\* C6: if every request of a pass gets a success status (no error is logged)
\* and every create is answered with an object from which a truthy identifier
\* is extracted, so that NUM_REQUESTS ids are collected, then the pass reports
\* success = total_requests = 4 * NUM_REQUESTS and failures = 0.
C6_AllSucceed ==
    (pc = "done" /\ errors_logged = 0 /\ Len(item_ids) = NUM_REQUESTS) =>
        /\ success = total_requests
        /\ success = 4 * NUM_REQUESTS
        /\ failures = 0

\* a finished pass of two creates in which all eight requests succeeded
C6_Witness ==
    /\ pc = "done"
    /\ NUM_REQUESTS = 2
    /\ errors_logged = 0
    /\ item_ids = <<PyInt(1), PyInt(2)>>
    /\ get_results = <<PyBool(TRUE), PyBool(TRUE)>>
    /\ put_results = <<PyBool(TRUE), PyBool(TRUE)>>
    /\ delete_results = <<PyBool(TRUE), PyBool(TRUE)>>

\* C7: every PUT sent in the update phase carries the create payload with its
\* name overridden: the body's name is "Updated", and its description, price
\* and in_stock are those of item_payload.
C7_PutBody ==
    \A i \in 1..Len(tasks.put) :
        tasks.put[i].st # "pending" =>
            /\ DictGet(tasks.put[i].json, K_name) = PyStr(Updated)
            /\ \A k \in {K_description, K_price, K_in_stock} :
                 DictGet(tasks.put[i].json, k) = DictGet(item_payload, k)

\* the fields of d whose name is "id", whatever the case of its letters
IdFields(d) == { i \in 1..Len(d) : Lower(d[i].k) = K_id }

\* post_item has returned on a 200/201 response that carries an object
Extracted(t) ==
    /\ t.st = "done"
    /\ t.r.kind = "http"
    /\ t.r.status \in {200, 201}
    /\ t.r.data.kind = "object"

\* C8: for every 200/201 create response object that has a field named "id"
\* in any case of letters, post_item returns the value of such a field,
\* whatever the order of the fields and whatever the other fields hold.
C8_PrefersIdField ==
    \A i \in 1..Len(tasks.post) :
        LET d == tasks.post[i].r.data.obj
        IN  (Extracted(tasks.post[i]) /\ IdFields(d) # {}) =>
                \E f \in IdFields(d) : tasks.post[i].result = d[f].v

CountOther == << Item(K_count, PyInt(3)), Item(K_other, PyInt(7)) >>

\* C9 as first stated: from the create response {"count": 3, "other": 7}
\* post_item extracts 7.
C9_Original ==
    \A i \in 1..Len(tasks.post) :
        (Extracted(tasks.post[i]) /\ tasks.post[i].r.data.obj = CountOther) =>
            tasks.post[i].result = PyInt(7)

\* C9: from the create response {"count": 3, "other": 7}, which has no "id"
\* field, post_item extracts 3, the value of the first field in the object's
\* order that holds a positive integer.
C9_FirstPositiveInt ==
    \A i \in 1..Len(tasks.post) :
        (Extracted(tasks.post[i]) /\ tasks.post[i].r.data.obj = CountOther) =>
            tasks.post[i].result = PyInt(3)

\* a create was answered 201 with {"count": 3, "other": 7}
C9_Witness ==
    /\ tasks.post # <<>>
    /\ Extracted(tasks.post[1])
    /\ tasks.post[1].r.data.obj = CountOther
    /\ tasks.post[1].r.status = 201

\* C10: the paths depend on the endpoint's trailing-slash property alone: the
\* GET, PUT and DELETE for id i go to {base}/items/{i}/ when the endpoint's
\* item route ends in a slash and to {base}/items/{i} when it does not,
\* whatever the text of the endpoint's URL.
C10_PathBySlashProperty ==
    \A ph \in {"get", "put", "delete"} :
        \A i \in 1..Len(tasks[ph]) :
            tasks[ph][i].st # "pending" =>
                tasks[ph][i].url =
                    url \o Format(tasks[ph][i].item_id)
                        \o (IF backend.trailing_slash THEN Slash ELSE <<>>)

\* the text u begins with the text prefix
StartsWith(u, prefix) ==
    Len(u) >= Len(prefix) /\ SubSeq(u, 1, Len(prefix)) = prefix

\* the requests of the batches that have been sent
SentTasks ==
    { t \in UNION { { tasks[ph][j] : j \in 1..Len(tasks[ph]) } : ph \in Phases } :
        t.st # "pending" }

\* C11: main runs one pass per configured endpoint, in the order of the
\* configuration and without overlap: the requests in flight all go to the
\* endpoint of the current pass, and none is sent before every earlier
\* endpoint's pass has finished and reported; the reports come one per
\* endpoint in that order; main ends only after all of them; and the pass of
\* an endpoint that is down for every request reports success = 0 and all its
\* requests as failures, after which main still goes on (it is never stuck
\* before its end).
C11_SequentialPasses ==
    /\ main.i \in 1..Len(EndpointOrder)
    /\ name = EndpointOrder[main.i].name /\ url = EndpointOrder[main.i].url
    /\ Len(reports) = IF pc = "done" THEN main.i ELSE main.i - 1
    /\ \A t \in SentTasks : StartsWith(t.url, EndpointOrder[main.i].url)
    /\ \A j \in 1..Len(reports) :
         /\ reports[j].name = EndpointOrder[j].name
         /\ reports[j].total_requests = 4 * NUM_REQUESTS
         /\ reports[j].name \in down =>
              reports[j].success = 0 /\ reports[j].failures = 4 * NUM_REQUESTS
    /\ main.pc = "done" => Len(reports) = Len(EndpointOrder)
    /\ main.pc # "done" => ENABLED NextMain

\* main has ended; the second backend was down for its whole pass, the passes
\* before and after it succeeded in full
C11_Witness ==
    /\ main.pc = "done"
    /\ down = {"flask"}
    /\ Len(reports) = 3
    /\ reports[1] = Report("fastapi", 4, 0, 4)
    /\ reports[2] = Report("flask", 0, 4, 4)
    /\ reports[3] = Report("drf", 4, 0, 4)

\* C12: on each backend a PUT for an id that is not stored answers 404 and
\* leaves the stored items as they were, and a PUT answers 200 only when the
\* item is stored.
C12_PutMissing ==
    [][ (server.req.op = "put" /\ server'.req = NoRequest) =>
          LET stored == server.req.item_id \in StoredIds(server.items)
          IN  /\ ~stored => (server'.reply.status = 404 /\ server'.items = server.items)
              /\ server'.reply.status = 200 => stored ]_vars

\* the statuses that make a request of the phase a success
SuccessStatuses(ph) ==
    CASE ph = "post" -> {200, 201}
      [] ph = "get" -> {200}
      [] ph = "put" -> {200}
      [] ph = "delete" -> {200, 204}

\* the coroutine has returned and still holds its response
Answered(t) == t.st = "done" /\ t.r.kind # "none"

\* the response has a status of the phase's success set
StatusOk(ph, t) == t.r.kind = "http" /\ t.r.status \in SuccessStatuses(ph)

\* the coroutines of the pass that returned a success
Succeeded(ph) == { i \in 1..Len(tasks[ph]) : Truthy(tasks[ph][i].result) }

\* C13 as first stated: a request is a success exactly when its status is in
\* its phase's success set, a create also needing that an identifier is
\* extracted from the response object; every other status and every exception
\* makes it a failure.
C13_Original ==
    \A ph \in Phases :
        \A i \in 1..Len(tasks[ph]) :
            LET t == tasks[ph][i]
            IN  Answered(t) =>
                  (Truthy(t.result) <=>
                     /\ StatusOk(ph, t)
                     /\ ph = "post" =>
                          /\ t.r.data.kind = "object"
                          /\ ExtractId(t.r.data.obj) # None)

\* C13: a request is a success exactly when its status is in its phase's
\* success set (create 200 or 201, read 200, update 200, delete 200 or 204), a
\* create also needing that the identifier extracted from the response object
\* is truthy (not None, 0, False or empty); every other status and every
\* transport exception makes that request a failure; and the success count of
\* the pass is the number of these successes.
C13_SuccessByStatus ==
    /\ \A ph \in Phases :
         \A i \in 1..Len(tasks[ph]) :
            LET t == tasks[ph][i]
            IN  Answered(t) =>
                  (Truthy(t.result) <=>
                     /\ StatusOk(ph, t)
                     /\ ph = "post" =>
                          /\ t.r.data.kind = "object"
                          /\ Truthy(ExtractId(t.r.data.obj)))
    /\ pc = "done" =>
         success = Cardinality(Succeeded("post")) + Cardinality(Succeeded("get"))
                   + Cardinality(Succeeded("put")) + Cardinality(Succeeded("delete"))

\* two deletes have been answered: 204 made a success, 201 a failure
C13_Witness ==
    /\ Len(tasks.delete) = 2
    /\ Answered(tasks.delete[1]) /\ Answered(tasks.delete[2])
    /\ tasks.delete[1].r.status = 204 /\ tasks.delete[1].result = PyBool(TRUE)
    /\ tasks.delete[2].r.status = 201 /\ tasks.delete[2].result = PyBool(FALSE)
    /\ get_results = <<PyBool(FALSE), PyBool(TRUE)>>

\* the phases that work on the collected ids
IdPhases == { "get", "put", "delete" }

\* the phase has been started: its batch has been built
Started(ph) ==
    CASE ph = "get" -> pc \in { "get_gather", "sleep_2", "put_gather", "sleep_3",
                                "delete_gather", "done" }
      [] ph = "put" -> pc \in { "put_gather", "sleep_3", "delete_gather", "done" }
      [] ph = "delete" -> pc \in { "delete_gather", "done" }

\* the URL of the request of phase ph for item_id
ItemUrl(ph, item_id) ==
    CASE ph = "get" -> get_url(url, item_id)
      [] ph = "put" -> put_url(url, item_id)
      [] ph = "delete" -> delete_url(url, item_id)

\* C14: in every pass the collected identifiers are the successful creates'
\* results in order, and each phase of read, update and delete, once started,
\* has exactly one request per collected identifier, position by position,
\* sent to that identifier's URL, whatever the identifier's earlier read or
\* update returned; no request of these phases is for anything else; at the
\* end of the pass each of them has been sent and answered, and the success
\* count is at most 4 times the number of collected identifiers.
C14_OneRequestPerId ==
    /\ item_ids = SelectSeq(post_results, Truthy)
    /\ \A ph \in IdPhases :
         /\ ~Started(ph) => tasks[ph] = <<>>
         /\ Started(ph) =>
              /\ Len(tasks[ph]) = Len(item_ids)
              /\ \A i \in 1..Len(item_ids) :
                   /\ tasks[ph][i].item_id = item_ids[i]
                   /\ tasks[ph][i].st # "pending" =>
                        tasks[ph][i].url = ItemUrl(ph, item_ids[i])
    /\ pc = "done" =>
         /\ \A ph \in IdPhases : AllDone(tasks[ph])
         /\ success <= 4 * Len(item_ids)

\* a pass has ended in which one of two creates gave an id, whose read and
\* update failed and whose delete was still sent and succeeded
C14_Witness ==
    /\ pc = "done" /\ NUM_REQUESTS = 2 /\ Len(item_ids) = 1
    /\ get_results = <<PyBool(FALSE)>> /\ put_results = <<PyBool(FALSE)>>
    /\ delete_results = <<PyBool(TRUE)>>
    /\ tasks.delete[1].item_id = item_ids[1]
    /\ tasks.delete[1].url = delete_url(url, item_ids[1])
    /\ success = 2

====
